---- MODULE Spec2Model ----
(***************************************************************************)
(* StegoNet: LSB image steganography with password-seeded pixel            *)
(* scheduling (lib/steganography.ts), AES-GCM envelope (lib/crypto.ts) and *)
(* the page that drives both (pages/StegoNet.tsx).                         *)
(*                                                                         *)
(* Numbers.  TLC integers are 32-bit signed, JavaScript numbers are        *)
(* doubles that are exact up to 2^53.  Every 32-bit quantity of the code   *)
(* that can exceed 2^31-1 (the PRNG state, the string hash) is kept as a   *)
(* pair <<hi, lo>> of 16-bit halves, value hi*2^16 + lo, and the           *)
(* arithmetic on it is carried out on the halves.                          *)
(***************************************************************************)
EXTENDS Integers, Sequences, FiniteSets, TLC

\* ------------------------------------------------------------------------
\* Bounds of the model (not program constants)
\* ------------------------------------------------------------------------
\* Number of PRNG draws the rejection loop is followed for once every pixel
\* index is already in `used` (from there on no draw can change anything
\* but the PRNG state).
MaxSpins == 2
\* A step of the model follows the rejection loop for up to 2^DrawsLog draws
DrawsLog == 13
\* Longest byte sequence handed to the bit codec on its own
MaxCodecLen == 3
\* next() calls of a generator on its own
MaxNexts == 8

\* ------------------------------------------------------------------------
\* Program constants
\* ------------------------------------------------------------------------
\* Uint8Array(12) nonce, Uint8Array(16) salt, 128-bit AES-GCM tag, SHA-256
\* digest of 32 bytes, password.length >= 8
IvLen == 12
SaltLen == 16
TagLen == 16
DigestLen == 32
MinPasswordLen == 8
\* 1664525 = LcgHi * 2^16 + LcgLo,  1013904223 = IncHi * 2^16 + IncLo
LcgHi == 25
LcgLo == 26125
IncHi == 15470
IncLo == 62303
W16 == 65536

\* ------------------------------------------------------------------------
\* Sequence helpers
\* ------------------------------------------------------------------------
Range(s) == {s[i] : i \in DOMAIN s}

\* Uint8Array.prototype.slice(a, b): both ends are clamped to the length.
Slice(s, a, b) ==
    LET lo == IF a > Len(s) THEN Len(s) ELSE a
        hi == IF b > Len(s) THEN Len(s) ELSE b
    IN  IF hi <= lo THEN <<>> ELSE [i \in 1..(hi - lo) |-> s[lo + i]]

Pow2(n) == IF n = 0 THEN 1 ELSE IF n = 1 THEN 2 ELSE IF n = 2 THEN 4
           ELSE IF n = 3 THEN 8 ELSE IF n = 4 THEN 16 ELSE IF n = 5 THEN 32
           ELSE IF n = 6 THEN 64 ELSE 128

\* ------------------------------------------------------------------------
\* Faulty variants of operators of the code.  A property further down that
\* rests on an operator is violated with the variant in its place.
\* ------------------------------------------------------------------------
\* embedBit that clears the two lowest bits: (pixelValue & 0xFC) | bit
embedBitWide(pixelValue, bit) == (pixelValue - (pixelValue % 4)) + bit

\* dataToBits that pushes the lowest bit of a byte first
dataToBitsLsbFirst(data) ==
    [k \in 1..(8 * Len(data)) |->
        (data[((k - 1) \div 8) + 1] \div Pow2((k - 1) % 8)) % 2]

\* A capacity check that never throws
TooSmallNever(width, height, dataLength) == FALSE

\* A generator that takes a position whether or not it was used
IsFreshAlways(pos, usedSet) == TRUE

\* A cipher without authentication: decrypt never rejects
AesGcmAuthenticAlways(key, iv, data) == TRUE

\* An isProcessing that leaves 'embedding' out
isProcessingNoEmbedding(st) == st \in {"encrypting", "extracting", "decrypting"}

\* A header call that keeps the second 32 positions: .slice(32, 64)
HeaderSliceLate(pos) == Slice(pos, 32, 64)

\* ------------------------------------------------------------------------
\* class PRNG
\* ------------------------------------------------------------------------
\* One round of the constructor's loop:
\*   hash = ((hash << 5) - hash) + char;  hash = hash & hash
\* i.e. (31*hash + char) reduced to 32 bits (two's complement).
HashStep(h, c) ==
    LET t == 31 * h[2] + c
    IN  <<(31 * h[1] + (t \div W16)) % W16, t % W16>>

RECURSIVE HashString(_, _, _)
HashString(s, i, h) ==
    IF i > Len(s) THEN h ELSE HashString(s, i + 1, HashStep(h, s[i]))

\* Math.abs of the int32 whose two's complement bits are h: in [0, 2^31].
AbsInt32(h) ==
    IF h[1] < 32768 THEN h
    ELSE <<(65535 - h[1] + (IF h[2] = 0 THEN 1 ELSE 0)) % W16, (W16 - h[2]) % W16>>

\* new PRNG(seed)
PRNGInit(s) == AbsInt32(HashString(s, 1, <<0, 0>>))

\* Faulty variant of next(): the lower half's carry is dropped
PRNGNextNoCarry(sd) ==
    LET t == sd[2] * LcgLo + IncLo
    IN  <<(sd[1] * LcgLo + sd[2] * LcgHi + IncHi) % W16, t % W16>>

\* this.seed * 1664525 + 1013904223 before the %: the value as top * 2^32 +
\* low, low in 16-bit halves.  A double holds it exactly while it is below
\* 2^53, i.e. while top < 2^21.
LcgExact(sd) ==
    LET p0 == sd[2] * LcgLo + IncLo
        p1 == sd[1] * LcgLo + sd[2] * LcgHi + IncHi + (p0 \div W16)
        p2 == sd[1] * LcgHi + (p1 \div W16)
    IN  [top |-> p2, low |-> <<p1 % W16, p0 % W16>>]

\* next(): seed = (seed * 1664525 + 1013904223) % 2^32.  The state can be
\* 2^31 only right after construction; 2^31 = <<32768, 0>> fits the halves.
PRNGNext(sd) ==
    LET t == sd[2] * LcgLo + IncLo
    IN  <<(sd[1] * LcgLo + sd[2] * LcgHi + IncHi + (t \div W16)) % W16, t % W16>>

\* Faulty variant of nextInt: scales by max - 1, so that max - 1 is never
\* returned
PRNGIntShort(sd, max) == (sd[1] * (max - 1) + ((sd[2] * (max - 1)) \div W16)) \div W16

\* nextInt(max) on the state reached by next(): floor(seed / 2^32 * max).
\* seed/2^32 is exact in a double and so is its product with max < 2^15.
PRNGInt(sd, max) == (sd[1] * max + ((sd[2] * max) \div W16)) \div W16

\* ------------------------------------------------------------------------
\* Bit codec
\* ------------------------------------------------------------------------
\* embedBit: (pixelValue & 0xFE) | bit
embedBit(pixelValue, bit) == (pixelValue - (pixelValue % 2)) + bit

\* Faulty variant of extractBit: reads the bit above the least significant
\* one, (pixelValue >> 1) & 1
extractBitSecond(pixelValue) == (pixelValue \div 2) % 2

\* extractBit: pixelValue & 1
extractBit(pixelValue) == pixelValue % 2

\* dataToBits: for each byte, for i = 7 downto 0 push (byte >> i) & 1
dataToBits(data) ==
    [k \in 1..(8 * Len(data)) |->
        (data[((k - 1) \div 8) + 1] \div Pow2(7 - ((k - 1) % 8))) % 2]

\* bitsToData: Uint8Array(ceil(len/8)), bytes[i div 8] |= 1 << (7 - i mod 8)
\* for every truthy bits[i].
RECURSIVE SumBits(_, _, _)
SumBits(bits, byteIndex, j) ==
    IF j > 7 THEN 0
    ELSE (IF 8 * byteIndex + j + 1 <= Len(bits) /\ bits[8 * byteIndex + j + 1] # 0
          THEN Pow2(7 - j) ELSE 0) + SumBits(bits, byteIndex, j + 1)

bitsToData(bits) ==
    [b \in 1..((Len(bits) + 7) \div 8) |-> SumBits(bits, b - 1, 0)]

\* ------------------------------------------------------------------------
\* Text and number encodings
\* ------------------------------------------------------------------------
\* Strings are sequences of char codes below 2048.  TextEncoder.encode is
\* UTF-8: one byte for an ASCII char, two bytes for the rest.
RECURSIVE TextEncodeFrom(_, _)
TextEncodeFrom(s, i) ==
    IF i > Len(s) THEN <<>>
    ELSE (IF s[i] < 128 THEN <<s[i]>>
          ELSE <<192 + (s[i] \div 64), 128 + (s[i] % 64)>>) \o TextEncodeFrom(s, i + 1)
TextEncode(s) == TextEncodeFrom(s, 1)

\* TextDecoder.decode (non-fatal): ASCII bytes and well-formed two-byte
\* sequences decode to their char; U+FFFD stands for the result of every
\* other byte (ill-formed input and chars of 2048 and above).
RECURSIVE TextDecodeFrom(_, _)
TextDecodeFrom(b, i) ==
    IF i > Len(b) THEN <<>>
    ELSE IF b[i] < 128 THEN <<b[i]>> \o TextDecodeFrom(b, i + 1)
    ELSE IF /\ b[i] >= 194 /\ b[i] <= 223 /\ i + 1 <= Len(b)
            /\ b[i + 1] >= 128 /\ b[i + 1] <= 191
         THEN <<(b[i] - 192) * 64 + (b[i + 1] - 128)>> \o TextDecodeFrom(b, i + 2)
    ELSE <<65533>> \o TextDecodeFrom(b, i + 1)
TextDecode(bytes) == TextDecodeFrom(bytes, 1)

\* DataView.setUint32(offset, n), big-endian; also the four shifts
\* (n >> 24) & 0xFF, (n >> 16) & 0xFF, (n >> 8) & 0xFF, n & 0xFF.
U32Bytes(n) == <<(n \div 16777216) % 256, (n \div 65536) % 256, (n \div 256) % 256, n % 256>>

\* DataView.getUint32(offset) inside the buffer.  A value of 2^24 or more
\* stands as Huge: the code only compares a decoded length with image
\* capacities and buffer lengths, all far below 2^24 in this model.
Huge == 16777216
getUint32(buf, offset) ==
    IF buf[offset + 1] > 0 THEN Huge
    ELSE buf[offset + 2] * 65536 + buf[offset + 3] * 256 + buf[offset + 4]

\* b.toString(16).padStart(2, '0') joined over the digest bytes
HexDigit(n) == IF n < 10 THEN 48 + n ELSE 87 + n
HexString(bytes) ==
    [k \in 1..(2 * Len(bytes)) |->
        HexDigit(IF k % 2 = 1 THEN bytes[(k + 1) \div 2] \div 16
                 ELSE bytes[k \div 2] % 16)]

\* ------------------------------------------------------------------------
\* crypto.subtle stand-ins (WebCrypto is outside the repository)
\* ------------------------------------------------------------------------
RECURSIVE WSum(_, _, _)
\* sum over i of (i + w) * s[i], from index i on
WSum(s, w, i) == IF i > Len(s) THEN 0 ELSE (i + w) * s[i] + WSum(s, w, i + 1)

\* SHA-256 stand-in: 32 bytes, injective on messages shorter than 32 bytes
\* (length byte, the bytes, zero padding).
Digest(data) ==
    [i \in 1..DigestLen |->
        IF i = 1 THEN Len(data) % 256
        ELSE IF i - 1 <= Len(data) THEN data[i - 1] ELSE 0]

\* PBKDF2 stand-in: the key is determined by, and determines, password
\* bytes and salt.
deriveKey(password, salt) == [pw |-> TextEncode(password), salt |-> salt]

\* AES-GCM stand-in: a keystream added bytewise and a 16-byte tag over
\* key, iv and ciphertext body.
KeyStream(key, iv, i) == (WSum(key.pw, 1, 1) + WSum(key.salt, 2, 1) + WSum(iv, 3, 1) + 17 * i) % 256
Tag(key, iv, body) ==
    [j \in 1..TagLen |->
        (WSum(key.pw, j, 1) + WSum(key.salt, j + 1, 1) + WSum(iv, j + 2, 1)
         + WSum(body, j, 1) + Len(body) + j) % 256]

AesGcmEncrypt(key, iv, plain) ==
    LET body == [i \in 1..Len(plain) |-> (plain[i] + KeyStream(key, iv, i)) % 256]
    IN  body \o Tag(key, iv, body)

\* crypto.subtle.decrypt rejects (throws) unless the tag authenticates.
AesGcmAuthentic(key, iv, data) ==
    /\ Len(data) >= TagLen
    /\ Slice(data, Len(data) - TagLen, Len(data))
         = Tag(key, iv, Slice(data, 0, Len(data) - TagLen))

AesGcmDecrypt(key, iv, data) ==
    LET body == Slice(data, 0, Len(data) - TagLen)
    IN  [i \in 1..Len(body) |-> (body[i] + 256 - KeyStream(key, iv, i)) % 256]

\* ------------------------------------------------------------------------
\* lib/crypto.ts
\* ------------------------------------------------------------------------
generateHash(message) == HexString(Digest(TextEncode(message)))

\* encryptMessage with the values crypto.getRandomValues returned
encryptMessage(message, password, salt, iv) ==
    [encryptedData |-> AesGcmEncrypt(deriveKey(password, salt), iv, TextEncode(message)),
     iv |-> iv, salt |-> salt, hash |-> generateHash(message)]

\* Faulty variant: decryptMessage that decodes what the cipher left when the
\* tag did not authenticate
decryptMessageNoCatch(encryptedData, iv, salt, password, expectedHash) ==
    LET key == deriveKey(password, salt)
        decryptedMessage == TextDecode(AesGcmDecrypt(key, iv, encryptedData))
        actualHash == generateHash(decryptedMessage)
    IN  [decryptedMessage |-> decryptedMessage,
         isValid |-> (AesGcmAuthentic(key, iv, encryptedData) /\ actualHash = expectedHash),
         hash |-> actualHash]

\* decryptMessage: the catch branch returns the empty result
decryptMessage(encryptedData, iv, salt, password, expectedHash) ==
    LET key == deriveKey(password, salt)
    IN  IF AesGcmAuthentic(key, iv, encryptedData)
        THEN LET decryptedMessage == TextDecode(AesGcmDecrypt(key, iv, encryptedData))
                 actualHash == generateHash(decryptedMessage)
             IN  [decryptedMessage |-> decryptedMessage,
                  isValid |-> (actualHash = expectedHash),
                  hash |-> actualHash]
        ELSE [decryptedMessage |-> <<>>, isValid |-> FALSE, hash |-> <<>>]

\* ------------------------------------------------------------------------
\* Files and images
\* ------------------------------------------------------------------------
\* A File / Blob holding a PNG is the raster it decodes to (PNG is lossless;
\* imageToCanvas + getImageData give width, height and the RGBA bytes).
\* Optional values (null / undefined) are <<>>, a present value v is <<v>>.
Null == <<>>
Some(v) == <<v>>

\* Placeholder raster of a handler that has not decoded an image
NoCanvas == [width |-> 0, height |-> 0]

\* message.trim() is non-empty
IsBlank(s) == \A i \in DOMAIN s : s[i] \in {9, 10, 13, 32}

\* isProcessing (pages/StegoNet.tsx)
isProcessing(st) == st \in {"encrypting", "embedding", "extracting", "decrypting"}

\* ------------------------------------------------------------------------
\* steganography.ts: payload framing
\* ------------------------------------------------------------------------
\* typedArray.set(src, offset) on a buffer (0-based offset)
SetAt(buf, src, offset) ==
    [k \in 1..Len(buf) |->
        IF k > offset /\ k <= offset + Len(src) THEN src[k - offset] ELSE buf[k]]

\* Faulty variant: a payload with the salt in front of the iv
BuildPayloadSaltFirst(enc) ==
    LET encryptedDataLength == Len(enc.encryptedData)
        hashBytes == TextEncode(enc.hash)
    IN  U32Bytes(encryptedDataLength) \o enc.encryptedData \o enc.salt \o enc.iv
            \o U32Bytes(Len(hashBytes)) \o hashBytes

\* [encrypted_data_length][encrypted_data][iv][salt][hash_length][hash]
BuildPayload(enc) ==
    LET encryptedDataLength == Len(enc.encryptedData)
        hashBytes == TextEncode(enc.hash)
        hashLength == Len(hashBytes)
        p0 == [k \in 1..(4 + encryptedDataLength + 12 + 16 + 4 + hashLength) |-> 0]
        p1 == SetAt(p0, U32Bytes(encryptedDataLength), 0)
        p2 == SetAt(p1, enc.encryptedData, 4)
        p3 == SetAt(p2, enc.iv, 4 + encryptedDataLength)
        p4 == SetAt(p3, enc.salt, 4 + encryptedDataLength + 12)
        p5 == SetAt(p4, U32Bytes(hashLength), 4 + encryptedDataLength + 12 + 16)
    IN  SetAt(p5, hashBytes, 4 + encryptedDataLength + 12 + 16 + 4)

\* Faulty variant: a header that leaves the 4 bytes of one length field out
\* of the count
AllBitsShortHeader(data) == dataToBits(U32Bytes(Len(data) - 4)) \o dataToBits(data)

\* allBits = [...lengthBits, ...payloadBits]
AllBits(data) == dataToBits(U32Bytes(Len(data))) \o dataToBits(data)

\* Faulty variant: the channel counted from green: (i + 1) % 3
SlotOfNextChannel(pos, i) == pos[i + 1] * 4 + ((i + 1) % 3)

\* Round i of  for (i = 0; i < allBits.length; i++):
\*   pixelStart = positions[i] * 4;  channel = i % 3
\*   pixels[pixelStart + channel] = embedBit(pixels[pixelStart + channel], allBits[i])
SlotOf(pos, i) == pos[i + 1] * 4 + (i % 3)
EmbedRound(px, bits, pos, i) ==
    [px EXCEPT ![SlotOf(pos, i) + 1] = embedBit(px[SlotOf(pos, i) + 1], bits[i + 1])]

\* Rounds lo .. hi - 1 of that loop (an empty buffer has no byte to write)
RECURSIVE EmbedRounds(_, _, _, _, _)
EmbedRounds(px, bits, pos, lo, hi) ==
    IF px = <<>> \/ hi <= lo THEN px
    ELSE IF hi = lo + 1 THEN EmbedRound(px, bits, pos, lo)
    ELSE EmbedRounds(EmbedRounds(px, bits, pos, lo, (lo + hi) \div 2),
                     bits, pos, (lo + hi) \div 2, hi)

\* ------------------------------------------------------------------------
\* generatePixelPositions: pure parts
\* ------------------------------------------------------------------------
\* bitsNeeded = 32 + dataLength * 8
BitsNeeded(dataLength) == 32 + (dataLength * 8)

\* if (bitsNeeded > totalPixels * 3) throw new Error('Image too small ...')
TooSmall(width, height, dataLength) == BitsNeeded(dataLength) > (width * height) * 3

\* if (!used.has(pos))
IsFresh(pos, usedSet) == pos \notin usedSet

\* One round of the while loop on the locals g = [positions, used, prng]
Draw(g, totalPixels) ==
    LET sd == PRNGNext(g.prng)
        pos == PRNGInt(sd, totalPixels)
    IN  IF IsFresh(pos, g.used)
        THEN [positions |-> Append(g.positions, pos), used |-> g.used \cup {pos}, prng |-> sd]
        ELSE [g EXCEPT !.prng = sd]

\* while (positions.length < bitsNeeded): rounds of the loop on the locals g,
\* at most 2^k of them.  The rounds stop where the loop exits, and where
\* every pixel index is in `used` (no round changes positions after that).
RECURSIVE GenLoop(_, _, _, _)
GenLoop(g, totalPixels, need, k) ==
    IF Len(g.positions) >= need \/ Len(g.positions) >= totalPixels THEN g
    ELSE IF k = 0 THEN Draw(g, totalPixels)
    ELSE GenLoop(GenLoop(g, totalPixels, need, k - 1), totalPixels, need, k - 1)

\* .slice(0, 32) of the header call
HeaderSlice(pos) == Slice(pos, 0, 32)

\* generatePixelPositions(width, height, dataLength, password) as a function
\* of its arguments, for a call that returns
generatePixelPositions(width, height, dataLength, pw) ==
    GenLoop([positions |-> <<>>, used |-> {}, prng |-> PRNGInit(pw)],
            width * height, BitsNeeded(dataLength), DrawsLog + 1).positions

\* extractBit over the scheduled slots i = from .. from + n - 1
ReadBits(px, pos, from, n) ==
    [j \in 1..n |-> extractBit(px[SlotOf(pos, from + j - 1) + 1])]

\* ------------------------------------------------------------------------
\* Inputs of the model
\* ------------------------------------------------------------------------
\* "AaAaAaAa" and "BBBBBBBB" are different passwords with the same PRNG
\* seed (31*65 + 97 = 31*66 + 66); "Str0ngPass!" has another seed.
PwA == <<65, 97, 65, 97, 65, 97, 65, 97>>
PwB == <<66, 66, 66, 66, 66, 66, 66, 66>>
PwS == <<83, 116, 114, 48, 110, 103, 80, 97, 115, 115, 33>>
\* "short": fewer than 8 characters
PwShort == <<115, 104, 111, 114, 116>>
EmbedPasswords == {PwA, PwShort}
ExtractPasswords == {PwA, PwB, PwS, PwShort}

\* "né" (3 bytes in UTF-8) and "Hey!" (4 bytes)
MsgNe == <<110, 233>>
MsgHey == <<72, 101, 121, 33>>
Messages == {MsgNe, MsgHey}

\* Values crypto.getRandomValues can return
Salts == {[i \in 1..SaltLen |-> (7 * i + 3) % 256]}
Ivs == {[i \in 1..IvLen |-> (11 * i + 5) % 256]}

\* A cover image: all four channels from a fixed pattern (so that a write
\* to an alpha byte would show).
CoverData(w, h, id) ==
    [k \in 1..(4 * w * h) |-> ((k - 1) * 37 + 11 * id + ((k - 1) \div 5)) % 256]

Cover(w, h, id) ==
    [ok |-> TRUE, width |-> w, height |-> h, data |-> CoverData(w, h, id),
     size |-> 4 * w * h + id]

\* A file the browser cannot decode (img.onerror)
BrokenFile == [ok |-> FALSE, width |-> 0, height |-> 0, data |-> <<>>, size |-> 7]

\* The image img after an earlier embed under password pw left the length
\* len in its 32 header slots (only the header matters to the model)
WithHeader(img, pw, len) ==
    LET slots == GenLoop([positions |-> <<>>, used |-> {}, prng |-> PRNGInit(pw)],
                         img.width * img.height, 32, 8).positions
        bits == dataToBits(U32Bytes(len))
        at == [k \in {SlotOf(slots, i) + 1 : i \in 0..31} |->
                 bits[(CHOOSE i \in 0..31 : SlotOf(slots, i) + 1 = k) + 1]]
    IN  [img EXCEPT !.data =
            [k \in 1..Len(img.data) |->
                IF k \in DOMAIN at THEN embedBit(img.data[k], at[k]) ELSE img.data[k]]]

\* 1280 pixels: room for every payload of the model.  The image was used
\* before: it carries the header of a 164-byte payload under PwS.
BigCover == WithHeader(Cover(40, 32, 1), PwS, 164)
\* 328 pixels: 3 * 328 = 984 = 32 + 8 * 119, the bits of a 3-byte message
EdgeCover == Cover(8, 41, 2)
\* 25 pixels: 3 * 25 = 75 bits
TinyCover == Cover(5, 5, 3)
\* 992 pixels: one pixel for each of the 32 + 8 * 120 bits of a 4-byte message
SnugCover == Cover(31, 32, 4)
Covers == {BigCover, EdgeCover, SnugCover, TinyCover, BrokenFile}

\* An image of even bytes
EvenImage(w, h) ==
    [ok |-> TRUE, width |-> w, height |-> h,
     data |-> [k \in 1..(4 * w * h) |-> 2 * ((k * 13) % 128)], size |-> 4 * w * h]

\* The image embedDataInImage makes of img for the envelope enc under pw
\* (encryptMessage and embedDataInImage are exported: any caller can make it)
ForeignStego(img, enc, pw) ==
    LET pl == BuildPayload(enc)
        bits == AllBits(pl)
        pos == generatePixelPositions(img.width, img.height, Len(pl), pw)
    IN  [img EXCEPT !.data = EmbedRounds(@, bits, pos, 0, Len(bits))]

\* A 40 x 32 image that carries the empty message encrypted under PwA, with
\* the hash of another message in the hash field
EmptyStego ==
    ForeignStego(EvenImage(40, 32),
                 [encryptMessage(<<>>, PwA, CHOOSE x \in Salts : TRUE, CHOOSE x \in Ivs : TRUE)
                     EXCEPT !.hash = generateHash(MsgHey)],
                 PwA)

\* Images offered to the extract tab that no embed of this session made
RawImages == {TinyCover, EvenImage(10, 10), WithHeader(EvenImage(10, 10), PwS, 6),
              WithHeader(EvenImage(10, 10), PwS, 9), EmptyStego}

VARIABLES
    \* useState of pages/StegoNet.tsx
    selectedImage, message, password, modifiedImageBlob,
    extractImage, extractPassword, extractedMessage,
    status, progress, stats, integrityStatus,
    \* the handler that runs or ran last ("none", "embed", "extract") and
    \* its position
    op, pc,
    \* canvas and getImageData of the running embedDataInImage or
    \* extractDataFromImage
    canvas, pixels,
    \* locals of handleEmbedMessage / embedDataInImage
    encryptionResult, payload, allBits, embedPositions, stegoResult,
    \* locals of handleExtractMessage / extractDataFromImage
    lengthPositions, totalLength, extractPositions, extractedPayload,
    extractionResult, decryptionResult,
    \* locals of the running generatePixelPositions
    positions, used, prng, bitsNeeded, spins

inputVars == <<selectedImage, message, password, extractImage, extractPassword>>
resultVars == <<modifiedImageBlob, stats, extractedMessage, integrityStatus>>
statusVars == <<status, progress>>
rasterVars == <<canvas, pixels>>
embedLocals == <<encryptionResult, payload, allBits, embedPositions, stegoResult>>
extractLocals == <<lengthPositions, totalLength, extractPositions, extractedPayload,
                   extractionResult, decryptionResult>>
genVars == <<positions, used, prng, bitsNeeded, spins>>
vars == <<inputVars, resultVars, statusVars, op, pc, rasterVars, embedLocals,
          extractLocals, genVars>>

NoEncryption == [encryptedData |-> <<>>, iv |-> <<>>, salt |-> <<>>, hash |-> <<>>]
\* embedDataInImage has not returned (success |-> FALSE, error |-> "pending");
\* modifiedImageBlob is the field of the StegoResult, <<>> where it is absent
NoStego == [success |-> FALSE, modifiedImageBlob |-> <<>>, error |-> "pending"]
NoExtraction == [success |-> FALSE, encryptedData |-> <<>>, iv |-> <<>>, salt |-> <<>>,
                 hash |-> <<>>, error |-> "pending"]
NoDecryption == [decryptedMessage |-> <<>>, isValid |-> FALSE, hash |-> <<>>]

\* The fresh locals of a handler
FreshEmbedLocals ==
    /\ encryptionResult = NoEncryption
    /\ payload = <<>>
    /\ allBits = <<>>
    /\ embedPositions = <<>>
    /\ stegoResult = NoStego
FreshExtractLocals ==
    /\ lengthPositions = <<>>
    /\ totalLength = 0
    /\ extractPositions = <<>>
    /\ extractedPayload = <<>>
    /\ extractionResult = NoExtraction
    /\ decryptionResult = NoDecryption
FreshGen ==
    /\ positions = <<>>
    /\ used = {}
    /\ prng = <<0, 0>>
    /\ bitsNeeded = 0
    /\ spins = 0

\* The page with a tab filled in: the embed tab, or the extract tab with an
\* image from elsewhere.
Init ==
    /\ \/ /\ selectedImage \in {Some(c) : c \in Covers}
          /\ message \in Messages
          /\ password \in EmbedPasswords
          /\ extractImage = Null
          /\ extractPassword = <<>>
       \/ /\ selectedImage = Null
          /\ message = <<>>
          /\ password = <<>>
          /\ extractImage \in {Some(c) : c \in RawImages}
          /\ extractPassword \in ExtractPasswords
    /\ modifiedImageBlob = Null
    /\ extractedMessage = <<>>
    /\ status = "idle"
    /\ progress = 0
    /\ stats = Null
    /\ integrityStatus = Null
    /\ op = "none"
    /\ pc = "idle"
    /\ canvas = NoCanvas
    /\ pixels = <<>>
    /\ FreshEmbedLocals
    /\ FreshExtractLocals
    /\ FreshGen

\* ------------------------------------------------------------------------
\* generatePixelPositions: the loop
\* ------------------------------------------------------------------------
\* Faulty variant: a generator that outlives the call, so that a later call
\* goes on from the state the call before it left
GenStartKeepsPrng(dataLength, seed) ==
    /\ positions' = <<>>
    /\ used' = {}
    /\ prng' = IF prng = <<0, 0>> THEN PRNGInit(seed) ELSE prng
    /\ bitsNeeded' = BitsNeeded(dataLength)
    /\ spins' = 0

\* The locals on entry to the while loop
GenStart(dataLength, seed) ==
    /\ positions' = <<>>
    /\ used' = {}
    /\ prng' = PRNGInit(seed)
    /\ bitsNeeded' = BitsNeeded(dataLength)
    /\ spins' = 0

InGenerator == pc \in {"embedGen", "headerGen", "payloadGen"}

\* while (positions.length < bitsNeeded) has exited
GenReturned == Len(positions) >= bitsNeeded

\* Every pixel index is in `used` and positions are still missing: no draw
\* can add one any more.
GenStuck == InGenerator /\ ~GenReturned /\ Cardinality(used) >= canvas.width * canvas.height

\* The while loop runs: up to 2^DrawsLog rounds, or one more round of a
\* loop that cannot exit any more
GenDraw ==
    /\ InGenerator
    /\ ~GenReturned
    /\ GenStuck => spins < MaxSpins
    /\ LET g0 == [positions |-> positions, used |-> used, prng |-> prng]
           g == IF GenStuck THEN Draw(g0, canvas.width * canvas.height)
                ELSE GenLoop(g0, canvas.width * canvas.height, bitsNeeded, DrawsLog)
       IN  /\ positions' = g.positions
           /\ used' = g.used
           /\ prng' = g.prng
    /\ spins' = IF GenStuck THEN spins + 1 ELSE spins
    /\ UNCHANGED <<inputVars, resultVars, statusVars, op, pc, rasterVars, embedLocals,
                   extractLocals, bitsNeeded>>

\* ------------------------------------------------------------------------
\* handleEmbedMessage / embedDataInImage
\* ------------------------------------------------------------------------
\* Faulty variant: an Embed button without isValidPassword, which leaves the
\* handler's own test (!password) as the only one
EmbedButtonAnyPassword ==
    /\ ~IsBlank(message)
    /\ password # <<>>
    /\ selectedImage # Null
    /\ ~isProcessing(status)

\* disabled={!isValidMessage || !isValidPassword || disabled || isProcessing}
EmbedButtonEnabled ==
    /\ ~IsBlank(message)
    /\ Len(password) >= MinPasswordLen
    /\ selectedImage # Null
    /\ ~isProcessing(status)

\* Click on Embed: the guard of handleEmbedMessage, then setStatus('encrypting')
EmbedClick ==
    /\ EmbedButtonEnabled
    \* a session embeds until it has its image
    /\ modifiedImageBlob = Null
    /\ IF selectedImage = Null \/ IsBlank(message) \/ password = <<>>
       THEN UNCHANGED vars
       ELSE /\ status' = "encrypting"
            /\ progress' = 20
            /\ op' = "embed"
            /\ pc' = "encrypt"
            /\ canvas' = NoCanvas
            /\ pixels' = <<>>
            /\ encryptionResult' = NoEncryption
            /\ payload' = <<>>
            /\ allBits' = <<>>
            /\ embedPositions' = <<>>
            /\ stegoResult' = NoStego
            /\ positions' = <<>>
            /\ used' = {}
            /\ prng' = <<0, 0>>
            /\ bitsNeeded' = 0
            /\ spins' = 0
            /\ UNCHANGED <<inputVars, resultVars, extractLocals>>

\* The catch block of handleEmbedMessage: setStatus('error').  res is what
\* embedDataInImage returned, NoStego if it was not called.
EmbedFailed(res) ==
    /\ stegoResult' = res
    /\ status' = "error"
    /\ pc' = "idle"
    /\ UNCHANGED <<inputVars, resultVars, progress, op>>

\* await encryptMessage(message, password); setStatus('embedding').
\* encryptMessage has no catch of its own: a rejection of crypto.subtle
\* (no secure context, a failing importKey) lands in the handler's catch.
EmbedEncrypt ==
    /\ pc = "encrypt"
    /\ \E cryptoOk \in BOOLEAN :
         IF cryptoOk
         THEN /\ \E salt \in Salts, iv \in Ivs :
                    encryptionResult' = encryptMessage(message, password, salt, iv)
              /\ status' = "embedding"
              /\ progress' = 60
              /\ pc' = "embedImage"
              /\ UNCHANGED <<inputVars, resultVars, op, stegoResult>>
         ELSE /\ EmbedFailed(NoStego)
              /\ UNCHANGED encryptionResult
    /\ UNCHANGED <<rasterVars, payload, allBits, embedPositions, extractLocals, genVars>>

\* embedDataInImage up to the loop of generatePixelPositions
EmbedImage ==
    /\ pc = "embedImage"
    /\ LET file == selectedImage[1]
       IN  IF ~file.ok
           THEN \* imageToCanvas rejects: 'Failed to load image'
                /\ EmbedFailed([NoStego EXCEPT !.error = "Failed to load image"])
                /\ UNCHANGED <<rasterVars, encryptionResult, payload, allBits, embedPositions,
                               genVars>>
           ELSE LET pl == BuildPayload(encryptionResult)
                IN  /\ canvas' = [width |-> file.width, height |-> file.height]
                    /\ pixels' = file.data
                    /\ payload' = pl
                    /\ UNCHANGED <<encryptionResult, allBits, embedPositions>>
                    /\ IF TooSmall(file.width, file.height, Len(pl))
                       THEN /\ EmbedFailed([NoStego EXCEPT
                                            !.error = "Image too small for data payload"])
                            /\ UNCHANGED genVars
                       ELSE /\ GenStart(Len(pl), password)
                            /\ pc' = "embedGen"
                            /\ UNCHANGED <<inputVars, resultVars, statusVars, op, stegoResult>>
    /\ UNCHANGED extractLocals

\* generatePixelPositions returned: const positions = ...; the bits are
\* laid out and the loop over allBits embeds them into the pixels
EmbedWrite ==
    /\ pc = "embedGen"
    /\ GenReturned
    /\ embedPositions' = positions
    /\ allBits' = AllBits(payload)
    /\ pixels' = EmbedRounds(pixels, AllBits(payload), positions, 0, Len(AllBits(payload)))
    /\ pc' = "embedBlob"
    /\ UNCHANGED <<inputVars, resultVars, statusVars, op, canvas, encryptionResult,
                   payload, stegoResult, extractLocals, genVars>>

\* The loop is over: putImageData, toBlob, stats, and the rest of
\* handleEmbedMessage.  canvas.toBlob may hand over null (blob!):
\* embedDataInImage then returns success: true with no blob, and the page's
\* test  stegoResult.success && stegoResult.modifiedImageBlob  throws.
EmbedFinish ==
    /\ pc = "embedBlob"
    /\ \E blobOk \in BOOLEAN :
         IF blobOk
         THEN /\ stegoResult' =
                   [success |-> TRUE,
                    modifiedImageBlob |->
                        Some([ok |-> TRUE, width |-> canvas.width, height |-> canvas.height,
                              data |-> pixels, size |-> Len(pixels)]),
                    error |-> "none"]
              /\ modifiedImageBlob' = stegoResult'.modifiedImageBlob
              /\ stats' = Some([originalSize |-> selectedImage[1].size,
                                dataEmbedded |-> Len(payload),
                                capacity |-> (canvas.width * canvas.height * 3) \div 8,
                                utilizationPercent |->
                                    <<Len(allBits) * 100,
                                      canvas.width * canvas.height * 3>>])
              /\ status' = "success"
              /\ progress' = 100
              /\ pc' = "idle"
              /\ UNCHANGED <<inputVars, extractedMessage, integrityStatus, op>>
         ELSE EmbedFailed([success |-> TRUE, modifiedImageBlob |-> <<>>, error |-> "none"])
    /\ UNCHANGED <<rasterVars, encryptionResult, payload, allBits, embedPositions, extractLocals,
                   genVars>>

\* ------------------------------------------------------------------------
\* handleExtractMessage / extractDataFromImage
\* ------------------------------------------------------------------------
\* disabled={password.length < 8 || disabled || isProcessing}
ExtractButtonEnabled ==
    /\ Len(extractPassword) >= MinPasswordLen
    /\ extractImage # Null
    /\ ~isProcessing(status)

\* Click on Extract: the guard of handleExtractMessage, then setStatus('extracting')
ExtractClick ==
    /\ ExtractButtonEnabled
    /\ IF extractImage = Null \/ extractPassword = <<>>
       THEN UNCHANGED vars
       ELSE /\ status' = "extracting"
            /\ progress' = 30
            /\ op' = "extract"
            /\ pc' = "extractImage"
            /\ canvas' = NoCanvas
            /\ pixels' = <<>>
            /\ lengthPositions' = <<>>
            /\ totalLength' = 0
            /\ extractPositions' = <<>>
            /\ extractedPayload' = <<>>
            /\ extractionResult' = NoExtraction
            /\ decryptionResult' = NoDecryption
            /\ positions' = <<>>
            /\ used' = {}
            /\ prng' = <<0, 0>>
            /\ bitsNeeded' = 0
            /\ spins' = 0
            /\ UNCHANGED <<inputVars, resultVars, embedLocals>>

\* extractDataFromImage returns { success: false, error } and the catch
\* block of handleExtractMessage runs: setStatus('error'),
\* setIntegrityStatus(null)
ExtractFailed(error) ==
    /\ extractionResult' = [NoExtraction EXCEPT !.error = error]
    /\ status' = "error"
    /\ integrityStatus' = Null
    /\ pc' = "idle"
    /\ UNCHANGED <<inputVars, modifiedImageBlob, stats, extractedMessage, progress, op,
                   decryptionResult>>

\* extractDataFromImage up to the loop of the header's generatePixelPositions
ExtractImage ==
    /\ pc = "extractImage"
    /\ LET file == extractImage[1]
       IN  IF ~file.ok
           THEN /\ ExtractFailed("Failed to load image")
                /\ UNCHANGED <<rasterVars, genVars>>
           ELSE /\ canvas' = [width |-> file.width, height |-> file.height]
                /\ pixels' = file.data
                /\ IF TooSmall(file.width, file.height, 4)
                   THEN /\ ExtractFailed("Image too small for data payload")
                        /\ UNCHANGED genVars
                   ELSE /\ GenStart(4, extractPassword)
                        /\ pc' = "headerGen"
                        /\ UNCHANGED <<inputVars, resultVars, statusVars, op,
                                       extractionResult, decryptionResult>>
    /\ UNCHANGED <<embedLocals, lengthPositions, totalLength, extractPositions,
                   extractedPayload>>

\* The length header is read and the second generatePixelPositions starts
ExtractHeader ==
    /\ pc = "headerGen"
    /\ GenReturned
    /\ LET lp == HeaderSlice(positions)
           lengthBytes == bitsToData(ReadBits(pixels, lp, 0, 32))
           tl == getUint32(lengthBytes, 0)
       IN  /\ lengthPositions' = lp
           /\ totalLength' = tl
           /\ IF TooSmall(canvas.width, canvas.height, tl)
              THEN /\ ExtractFailed("Image too small for data payload")
                   /\ UNCHANGED genVars
              ELSE /\ GenStart(tl, extractPassword)
                   /\ pc' = "payloadGen"
                   /\ UNCHANGED <<inputVars, resultVars, statusVars, op,
                                  extractionResult, decryptionResult>>
    /\ UNCHANGED <<rasterVars, embedLocals, extractPositions, extractedPayload>>

\* Faulty variant: a parse whose second getUint32 reads 0 beyond the buffer
\* instead of throwing
ParsePayloadNoRangeError(pl) ==
    IF Len(pl) < 4 THEN [NoExtraction EXCEPT !.error = "RangeError"]
    ELSE LET encryptedDataLength == getUint32(pl, 0)
             offset == 4 + encryptedDataLength + 12 + 16
             hashLength == IF offset + 4 > Len(pl) THEN 0 ELSE getUint32(pl, offset)
         IN  [success |-> TRUE,
              encryptedData |-> Slice(pl, 4, 4 + encryptedDataLength),
              iv |-> Slice(pl, 4 + encryptedDataLength, 4 + encryptedDataLength + 12),
              salt |-> Slice(pl, 4 + encryptedDataLength + 12, offset),
              hash |-> TextDecode(Slice(pl, offset + 4, offset + 4 + hashLength)),
              error |-> "none"]

\* The parse of extractDataFromImage: the result, or "RangeError" where a
\* DataView.getUint32 reaches beyond the buffer
ParsePayload(pl) ==
    IF Len(pl) < 4 THEN [NoExtraction EXCEPT !.error = "RangeError"]
    ELSE LET encryptedDataLength == getUint32(pl, 0)
             offset == 4 + encryptedDataLength + 12 + 16
         IN  IF offset + 4 > Len(pl) THEN [NoExtraction EXCEPT !.error = "RangeError"]
             ELSE LET hashLength == getUint32(pl, offset)
                  IN  [success |-> TRUE,
                       encryptedData |-> Slice(pl, 4, 4 + encryptedDataLength),
                       iv |-> Slice(pl, 4 + encryptedDataLength, 4 + encryptedDataLength + 12),
                       salt |-> Slice(pl, 4 + encryptedDataLength + 12, offset),
                       hash |-> TextDecode(Slice(pl, offset + 4, offset + 4 + hashLength)),
                       error |-> "none"]

\* The payload bits are read and parsed; handleExtractMessage goes on to
\* setStatus('decrypting') or to its catch block
ExtractPayload ==
    /\ pc = "payloadGen"
    /\ GenReturned
    /\ LET pl == bitsToData(ReadBits(pixels, positions, 32, totalLength * 8))
           res == ParsePayload(pl)
       IN  /\ extractPositions' = positions
           /\ extractedPayload' = pl
           /\ IF res.success
              THEN /\ extractionResult' = res
                   /\ status' = "decrypting"
                   /\ progress' = 70
                   /\ pc' = "decrypt"
                   /\ UNCHANGED <<inputVars, resultVars, op, decryptionResult>>
              ELSE ExtractFailed(res.error)
    /\ UNCHANGED <<rasterVars, embedLocals, lengthPositions, totalLength, genVars>>

\* Faulty variant: a page that reports every extracted message as verified
ExtractStatusAlwaysVerified(res) == "verified"

\* setStatus(decryptionResult.isValid ? 'verified' : 'success')
ExtractStatus(res) == IF res.isValid THEN "verified" ELSE "success"

\* await decryptMessage(...) and the rest of handleExtractMessage
ExtractDecrypt ==
    /\ pc = "decrypt"
    /\ LET res == decryptMessage(extractionResult.encryptedData, extractionResult.iv,
                                 extractionResult.salt, extractPassword,
                                 extractionResult.hash)
       IN  /\ decryptionResult' = res
           /\ IF res.decryptedMessage # <<>>
              THEN /\ extractedMessage' = res.decryptedMessage
                   /\ integrityStatus' = Some([isValid |-> res.isValid, hash |-> res.hash])
                   /\ status' = ExtractStatus(res)
                   /\ progress' = 100
                   /\ UNCHANGED <<modifiedImageBlob, stats>>
              ELSE /\ status' = "error"
                   /\ integrityStatus' = Null
                   /\ UNCHANGED <<modifiedImageBlob, stats, extractedMessage, progress>>
    /\ pc' = "idle"
    /\ UNCHANGED <<inputVars, op, rasterVars, embedLocals, lengthPositions, totalLength,
                   extractPositions, extractedPayload, extractionResult, genVars>>

\* ------------------------------------------------------------------------
\* Other user actions
\* ------------------------------------------------------------------------
\* The produced image is downloaded (handleDownloadImage) and dropped on
\* the extract tab (onFileSelect={setExtractImage})
LoadStego ==
    /\ ~isProcessing(status)
    /\ modifiedImageBlob # Null
    /\ extractImage # modifiedImageBlob
    /\ extractImage' = modifiedImageBlob
    /\ UNCHANGED <<selectedImage, message, password, extractPassword, resultVars,
                   statusVars, op, pc, rasterVars, embedLocals, extractLocals, genVars>>

\* Bits of allBits an altered copy of the produced image has flipped, for a
\* ciphertext of c bytes: the first ciphertext bit, the last bit of the GCM
\* tag, the lowest bit of the hash length field, the lowest bit of the first
\* hash character, and the bits of value 128 and 1 of the ciphertext length
\* field
TamperBits(c) == {32 + 8 * 4, 32 + 8 * (4 + c) - 1, 32 + 8 * (4 + c + 12 + 16 + 4) - 1,
                  32 + 8 * (4 + c + 12 + 16 + 4) + 7, 32 + 8 * 3, 32 + 8 * 4 - 1}

\* The byte at index k (1-based) of a pixel buffer with its lowest bit flipped
FlipLsb(px, k) == [px EXCEPT ![k] = IF px[k] % 2 = 0 THEN px[k] + 1 ELSE px[k] - 1]

\* The image the last embed produced is downloaded, one stored bit of it is
\* flipped, and the altered file is dropped on the empty extract tab
LoadTampered ==
    /\ ~isProcessing(status)
    /\ modifiedImageBlob # Null
    /\ stegoResult.modifiedImageBlob = modifiedImageBlob
    /\ extractImage = Null
    /\ \E i \in TamperBits(Len(encryptionResult.encryptedData)) :
          extractImage' = Some([modifiedImageBlob[1] EXCEPT
                                   !.data = FlipLsb(@, SlotOf(embedPositions, i) + 1)])
    /\ UNCHANGED <<selectedImage, message, password, extractPassword, resultVars,
                   statusVars, op, pc, rasterVars, embedLocals, extractLocals, genVars>>

\* The file on the extract tab is replaced by one that is not an image
\* (onFileSelect={setExtractImage}; nothing else of the page changes)
LoadUnreadable ==
    /\ ~isProcessing(status)
    /\ extractImage # Null
    /\ extractImage # Some(BrokenFile)
    /\ extractImage' = Some(BrokenFile)
    /\ UNCHANGED <<selectedImage, message, password, extractPassword, resultVars,
                   statusVars, op, pc, rasterVars, embedLocals, extractLocals, genVars>>

\* The password is typed into the extract tab (setExtractPassword; the
\* input is disabled={disabled || isProcessing}, disabled={!extractImage}).
\* It is typed once per session.
TypeExtractPassword ==
    /\ ~isProcessing(status)
    /\ extractImage # Null
    /\ extractPassword = <<>>
    /\ extractPassword' \in ExtractPasswords
    /\ UNCHANGED <<selectedImage, message, password, extractImage, resultVars,
                   statusVars, op, pc, rasterVars, embedLocals, extractLocals, genVars>>

\* The Reset button: disabled={isProcessing}
ResetButtonEnabled == ~isProcessing(status)

\* handleReset behind the Reset button
handleReset ==
    /\ ResetButtonEnabled
    /\ selectedImage' = Null
    /\ message' = <<>>
    /\ password' = <<>>
    /\ modifiedImageBlob' = Null
    /\ extractImage' = Null
    /\ extractPassword' = <<>>
    /\ extractedMessage' = <<>>
    /\ status' = "idle"
    /\ progress' = 0
    /\ stats' = Null
    /\ integrityStatus' = Null
    /\ UNCHANGED <<op, pc, rasterVars, embedLocals, extractLocals, genVars>>

\* ------------------------------------------------------------------------
\* The bit codec on its own: dataToBits on a byte sequence, bitsToData on
\* the bits
\* ------------------------------------------------------------------------
CodecByteValues == {0, 1, 128, 170, 255}
CodecInputs == UNION {[1..n -> CodecByteValues] : n \in 0..MaxCodecLen}

CodecInit ==
    /\ selectedImage = Null
    /\ message = <<>>
    /\ password = <<>>
    /\ extractImage = Null
    /\ extractPassword = <<>>
    /\ modifiedImageBlob = Null
    /\ extractedMessage = <<>>
    /\ status = "idle"
    /\ progress = 0
    /\ stats = Null
    /\ integrityStatus = Null
    /\ op = "codec"
    /\ pc = "dataToBits"
    /\ canvas = NoCanvas
    /\ pixels = <<>>
    /\ encryptionResult = NoEncryption
    /\ payload \in CodecInputs
    /\ allBits = <<>>
    /\ embedPositions = <<>>
    /\ stegoResult = NoStego
    /\ FreshExtractLocals
    /\ FreshGen

\* const payloadBits = dataToBits(payload)
CodecEncode ==
    /\ op = "codec"
    /\ pc = "dataToBits"
    /\ allBits' = dataToBits(payload)
    /\ pc' = "bitsToData"
    /\ UNCHANGED <<inputVars, resultVars, statusVars, op, rasterVars, encryptionResult,
                   payload, embedPositions, stegoResult, extractLocals, genVars>>

\* const payload = bitsToData(payloadBits)
CodecDecode ==
    /\ op = "codec"
    /\ pc = "bitsToData"
    /\ extractedPayload' = bitsToData(allBits)
    /\ pc' = "codecDone"
    /\ UNCHANGED <<inputVars, resultVars, statusVars, op, rasterVars, embedLocals,
                   lengthPositions, totalLength, extractPositions, extractionResult,
                   decryptionResult, genVars>>

CodecNext ==
    \/ CodecEncode
    \/ CodecDecode

SpecCodec == CodecInit /\ [][CodecNext]_vars

\* ------------------------------------------------------------------------
\* class PRNG on its own: new PRNG(seed), then nextInt(totalPixels) again
\* and again; `positions` holds the integers drawn
\* ------------------------------------------------------------------------
\* "polygenelubricants": the constructor's hash is -2^31, the seed 2^31
PwMin == <<112, 111, 108, 121, 103, 101, 110, 101, 108, 117, 98, 114, 105, 99, 97, 110,
           116, 115>>
PrngSeeds == {PwA, PwB, PwS, PwShort, PwMin}
PrngSizes == {[width |-> 5, height |-> 5], [width |-> 8, height |-> 41],
              [width |-> 40, height |-> 32]}

PrngInit ==
    /\ selectedImage = Null
    /\ message = <<>>
    /\ password \in PrngSeeds
    /\ extractImage = Null
    /\ extractPassword = <<>>
    /\ modifiedImageBlob = Null
    /\ extractedMessage = <<>>
    /\ status = "idle"
    /\ progress = 0
    /\ stats = Null
    /\ integrityStatus = Null
    /\ op = "prng"
    /\ pc = "nextInt"
    /\ canvas \in PrngSizes
    /\ pixels = <<>>
    /\ FreshEmbedLocals
    /\ FreshExtractLocals
    /\ positions = <<>>
    /\ used = {}
    /\ prng = PRNGInit(password)
    /\ bitsNeeded = 0
    /\ spins = 0

\* const pos = prng.nextInt(totalPixels)
PrngNextInt ==
    /\ op = "prng"
    /\ Len(positions) < MaxNexts
    /\ prng' = PRNGNext(prng)
    /\ positions' = Append(positions, PRNGInt(prng', canvas.width * canvas.height))
    /\ UNCHANGED <<inputVars, resultVars, statusVars, op, pc, rasterVars, embedLocals,
                   extractLocals, used, bitsNeeded, spins>>

SpecPrng == PrngInit /\ [][PrngNextInt]_vars

Next ==
    \/ EmbedClick
    \/ EmbedEncrypt
    \/ EmbedImage
    \/ EmbedWrite
    \/ EmbedFinish
    \/ ExtractClick
    \/ ExtractImage
    \/ ExtractHeader
    \/ ExtractPayload
    \/ ExtractDecrypt
    \/ GenDraw
    \/ LoadStego
    \/ LoadTampered
    \/ LoadUnreadable
    \/ TypeExtractPassword
    \/ handleReset

Spec == Init /\ [][Next]_vars

\* ------------------------------------------------------------------------
\* Properties
\* ------------------------------------------------------------------------
TotalPixels == canvas.width * canvas.height

\* The extract tab holds the image the last successful embed produced
StegoLoaded == modifiedImageBlob # Null /\ extractImage = modifiedImageBlob

\* a is an initial segment of b
IsPrefix(a, b) == Len(a) <= Len(b) /\ \A i \in 1..Len(a) : a[i] = b[i]

\* The embed call and the extract call hand generatePixelPositions the same
\* width, height and seed
SameSchedule ==
    /\ selectedImage # Null
    /\ extractImage # Null
    /\ selectedImage[1].width = extractImage[1].width
    /\ selectedImage[1].height = extractImage[1].height
    /\ PRNGInit(password) = PRNGInit(extractPassword)

\* C1: round trip.  An embed whose 32 + 8 * payloadBytes bits are within
\* 3 * width * height gets through generatePixelPositions, and the extract
\* of its image under the same password gets through too and ends with the
\* message that was embedded and a verified status.
C1_RoundTrip ==
    /\ (pc = "embedGen" /\ bitsNeeded <= 3 * TotalPixels) => ~GenStuck
    /\ (op = "extract" /\ StegoLoaded /\ extractPassword = password) =>
          /\ ~GenStuck
          /\ pc = "idle" =>
                /\ status = "verified"
                /\ extractedMessage = message
                /\ integrityStatus = Some([isValid |-> TRUE, hash |-> generateHash(message)])

\* C2: wrong password.  The extract of an embedded image under another
\* password than the embed's always ends, ends in an error, and shows no
\* text.
C2_WrongPassword ==
    (op = "extract" /\ StegoLoaded /\ extractPassword # password) =>
        /\ ~GenStuck
        /\ extractedMessage = <<>>
        /\ pc = "idle" => (status = "error" /\ integrityStatus = Null)

\* C3: capacity boundary.  An embed of exactly 3 * width * height bits
\* succeeds (its generatePixelPositions returns), and no embed of more bits
\* gets past the capacity check.
C3_CapacityBoundary ==
    /\ (pc = "embedGen" /\ bitsNeeded = 3 * TotalPixels) => ~GenStuck
    /\ (op = "embed" /\ pc \in {"embedGen", "embedBlob"}) => bitsNeeded <= 3 * TotalPixels

\* C4: the sequence generatePixelPositions returns has 32 + 8 * dataLength
\* entries, each a pixel index in [0, width * height), none twice; so no two
\* rounds of the embed loop write the same byte.
C4_PositionsContract ==
    (InGenerator /\ GenReturned) =>
        /\ Len(positions) = bitsNeeded
        /\ pc = "embedGen" => Len(positions) = 32 + 8 * Len(payload)
        /\ pc = "headerGen" => Len(positions) = 32 + 8 * 4
        /\ pc = "payloadGen" => Len(positions) = 32 + 8 * totalLength
        /\ \A i \in 1..Len(positions) : positions[i] \in 0..(TotalPixels - 1)
        /\ Cardinality(Range(positions)) = Len(positions)
        /\ Cardinality({SlotOf(positions, i) : i \in 0..(Len(positions) - 1)}) = Len(positions)

C4_Witness ==
    /\ pc = "embedGen"
    /\ GenReturned
    /\ Len(positions) = 32 + 8 * Len(payload)
    /\ Len(payload) > 100
    /\ spins = 0

\* C5: prefix consistency.  For one width, height and seed, the positions of
\* a call for fewer bytes are an initial segment of the positions of a call
\* for more bytes: the 32 header positions of the extract are the first 32
\* positions of its payload call and the first 32 positions the embed used.
C5_PrefixConsistency ==
    op = "extract" =>
        /\ (lengthPositions # <<>> /\ extractPositions # <<>>) =>
              lengthPositions = Slice(extractPositions, 0, 32)
        /\ (lengthPositions # <<>> /\ pc = "payloadGen") =>
              (IsPrefix(lengthPositions, positions) \/ IsPrefix(positions, lengthPositions))
        /\ (SameSchedule /\ embedPositions # <<>>) =>
              /\ lengthPositions # <<>> => lengthPositions = Slice(embedPositions, 0, 32)
              /\ (pc = "headerGen" /\ GenReturned) => IsPrefix(positions, embedPositions)
              /\ extractPositions # <<>> =>
                    (IsPrefix(extractPositions, embedPositions)
                        \/ IsPrefix(embedPositions, extractPositions))

C5_Witness ==
    /\ op = "extract"
    /\ SameSchedule
    /\ Len(lengthPositions) = 32
    /\ Len(embedPositions) > 64
    /\ Len(extractPositions) = Len(embedPositions)
    /\ lengthPositions = Slice(embedPositions, 0, 32)

\* C6: an embed of more than 3 * width * height bits fails with the capacity
\* error: the generator draws nothing, the handler ends in the error status
\* with no image produced, and every byte of the pixel buffer is the cover's.
C6_TooSmallLeavesPixels ==
    (op = "embed" /\ selectedImage # Null /\ canvas # NoCanvas
        /\ 32 + 8 * Len(payload) > 3 * TotalPixels) =>
        /\ pc = "idle"
        /\ status = "error"
        /\ positions = <<>>
        /\ used = {}
        /\ pixels = selectedImage[1].data
        /\ modifiedImageBlob = Null

C6_Witness ==
    /\ op = "embed"
    /\ selectedImage # Null
    /\ canvas # NoCanvas
    /\ payload # <<>>
    /\ 32 + 8 * Len(payload) > 3 * TotalPixels
    /\ status = "error"
    /\ pixels = selectedImage[1].data

\* C7: an embed of more bits than the image has pixel indices (the distinct
\* positions the generator can return) fails with the capacity error: it
\* never enters the loop of generatePixelPositions.
C7_ShortOfPositionsFails ==
    (op = "embed" /\ pc = "embedGen") => bitsNeeded <= TotalPixels

\* C8: every extract runs to completion or failure: the loop of
\* generatePixelPositions never reaches a point from which it cannot exit.
C8_ExtractTerminates ==
    (op = "extract" /\ pc \in {"headerGen", "payloadGen"}) =>
        (GenReturned \/ Cardinality(used) < TotalPixels)

\* C9: the embed loop changes the pixel buffer only in the lowest bit of an
\* R, G or B byte of a scheduled pixel: alpha bytes, the upper seven bits of
\* every byte and every byte of an unscheduled pixel are the cover's.
C9_OnlyScheduledLsb ==
    pc = "embedBlob" =>
        /\ Len(pixels) = Len(selectedImage[1].data)
        /\ \A k \in 1..Len(pixels) :
              /\ (k - 1) % 4 = 3 => pixels[k] = selectedImage[1].data[k]
              /\ pixels[k] \div 2 = selectedImage[1].data[k] \div 2
              /\ pixels[k] # selectedImage[1].data[k] =>
                    \E i \in 1..Len(embedPositions) : embedPositions[i] = (k - 1) \div 4

C9_Witness ==
    /\ pc = "embedBlob"
    /\ Len(embedPositions) = Len(allBits)
    /\ Len(allBits) > 32
    /\ pixels # selectedImage[1].data
    /\ Len(embedPositions) < TotalPixels

\* C10: bitsToData(dataToBits(B)) = B for every byte sequence B, and
\* dataToBits gives the bits of each byte from the highest to the lowest.
C10_CodecInverse ==
    /\ (op = "codec" /\ pc \in {"bitsToData", "codecDone"}) =>
          /\ Len(allBits) = 8 * Len(payload)
          /\ \A i \in 1..Len(payload) : \A j \in 0..7 :
                allBits[8 * (i - 1) + j + 1] = (payload[i] \div Pow2(7 - j)) % 2
    /\ (op = "codec" /\ pc = "codecDone") => extractedPayload = payload

C10_Witness ==
    /\ op = "codec"
    /\ pc = "codecDone"
    /\ payload = <<1, 128, 170>>
    /\ extractedPayload = payload

\* C11: determinism.  A call of generatePixelPositions that returns, returns
\* the sequence fixed by its width, height, dataLength and password alone,
\* whatever calls went before it; the call of an embed and the payload call
\* of a later extract with the same four arguments return the same sequence.
C11_Deterministic ==
    /\ (InGenerator /\ GenReturned) =>
          positions = generatePixelPositions(canvas.width, canvas.height,
                          IF pc = "embedGen" THEN Len(payload)
                          ELSE IF pc = "headerGen" THEN 4 ELSE totalLength,
                          IF pc = "embedGen" THEN password ELSE extractPassword)
    /\ (/\ pc = "payloadGen"
        /\ GenReturned
        /\ embedPositions # <<>>
        /\ selectedImage[1].width = canvas.width
        /\ selectedImage[1].height = canvas.height
        /\ totalLength = Len(payload)
        /\ extractPassword = password) => positions = embedPositions

C11_Witness ==
    /\ pc = "payloadGen"
    /\ GenReturned
    /\ Len(embedPositions) > 900
    /\ selectedImage[1].width = canvas.width
    /\ selectedImage[1].height = canvas.height
    /\ totalLength = Len(payload)
    /\ extractPassword = password
    /\ positions = embedPositions

\* The raster of the running or last extract is the image of the last embed
ReadsStego ==
    /\ modifiedImageBlob # Null
    /\ canvas = [width |-> modifiedImageBlob[1].width, height |-> modifiedImageBlob[1].height]
    /\ pixels = modifiedImageBlob[1].data

\* The raster of the running or last extract is the image of the last embed
\* with the stored bit i (0-based, header included) flipped
Tampered(i) ==
    /\ modifiedImageBlob # Null
    /\ i < Len(embedPositions)
    /\ canvas = [width |-> modifiedImageBlob[1].width, height |-> modifiedImageBlob[1].height]
    /\ pixels = FlipLsb(modifiedImageBlob[1].data, SlotOf(embedPositions, i) + 1)

\* handleExtractMessage has run to its end on the image of the extract tab
ExtractDone == op = "extract" /\ pc = "idle" /\ extractImage # Null /\ status # "idle"

\* The stored bits of the ciphertext (AES-GCM output, tag included) of a
\* payload whose ciphertext has c bytes
CiphertextBits(c) == (32 + 8 * 4)..(32 + 8 * (4 + c) - 1)

\* C12: tamper detection.  An extract under the embed's password of an
\* image that differs from the embedded one in one stored ciphertext bit
\* ends in status 'error': decryptMessage returns its empty result and the
\* page shows no plaintext.
C12_TamperDetected ==
    \A i \in CiphertextBits(Len(encryptionResult.encryptedData)) :
        (Tampered(i) /\ extractPassword = password /\ ExtractDone) =>
            /\ status = "error"
            /\ decryptionResult = NoDecryption
            /\ extractedMessage = <<>>
            /\ integrityStatus = Null

C12_Witness ==
    /\ ExtractDone
    /\ extractPassword = password
    /\ \E i \in CiphertextBits(Len(encryptionResult.encryptedData)) : Tampered(i)
    /\ extractionResult.success
    /\ extractionResult.encryptedData # encryptionResult.encryptedData
    /\ Len(extractionResult.encryptedData) = Len(encryptionResult.encryptedData)
    /\ status = "error"

\* crypto.subtle.decrypt rejects what the extraction handed to decryptMessage
DecryptionFails ==
    ~AesGcmAuthentic(deriveKey(extractPassword, extractionResult.salt),
                     extractionResult.iv, extractionResult.encryptedData)

\* C13: a decryption failure fails closed.  When the cipher rejects,
\* decryptMessage returns the empty message with isValid = FALSE, and the
\* step of handleExtractMessage that awaited it ends in status 'error' with
\* no integrity status and the displayed message left as it was.
C13_FailsClosed ==
    [][(pc = "decrypt" /\ DecryptionFails) =>
          /\ decryptionResult' = [decryptedMessage |-> <<>>, isValid |-> FALSE, hash |-> <<>>]
          /\ status' = "error"
          /\ integrityStatus' = Null
          /\ extractedMessage' = extractedMessage
          /\ pc' = "idle"]_vars

C13_Witness ==
    /\ ExtractDone
    /\ extractionResult.success
    /\ Len(extractionResult.encryptedData) > TagLen
    /\ DecryptionFails
    /\ extractPassword # password
    /\ decryptionResult.decryptedMessage = <<>>
    /\ ~decryptionResult.isValid
    /\ status = "error"
    /\ extractedMessage = <<>>

\* What crypto.subtle.decrypt and the decoder make of the extracted envelope
ExtractedPlaintext ==
    TextDecode(AesGcmDecrypt(deriveKey(extractPassword, extractionResult.salt),
                             extractionResult.iv, extractionResult.encryptedData))

\* C14: an integrity mismatch is not fatal.  When the cipher accepts the
\* extracted envelope and the hash of the plaintext differs from the hash
\* the payload carried, decryptMessage returns the plaintext with
\* isValid = FALSE and the page stores the plaintext and ends in status
\* 'success'.
C14_MismatchNonFatal ==
    (/\ ExtractDone
     /\ extractionResult.success
     /\ ~DecryptionFails
     /\ generateHash(ExtractedPlaintext) # extractionResult.hash) =>
        /\ decryptionResult = [decryptedMessage |-> ExtractedPlaintext, isValid |-> FALSE,
                               hash |-> generateHash(ExtractedPlaintext)]
        /\ extractedMessage = ExtractedPlaintext
        /\ status = "success"

\* C15: malformed payload.  When the ciphertext length decoded at offset 0
\* exceeds the bytes after it, or the hash length decoded behind the salt
\* exceeds the bytes after it, extractDataFromImage returns success = false.
C15_MalformedPayloadFails ==
    (op = "extract" /\ Len(extractedPayload) >= 4) =>
        LET encryptedDataLength == getUint32(extractedPayload, 0)
            offset == 4 + encryptedDataLength + 12 + 16
        IN  /\ encryptedDataLength > Len(extractedPayload) - 4 => ~extractionResult.success
            /\ (/\ offset + 4 <= Len(extractedPayload)
                /\ getUint32(extractedPayload, offset) > Len(extractedPayload) - (offset + 4))
                  => ~extractionResult.success

\* The 32-bit big-endian number in the first 32 bits the embed writes
HeaderValue == getUint32(bitsToData(Slice(allBits, 0, 32)), 0)

\* C16: the length header.  The 32-bit big-endian header embedDataInImage
\* writes before the payload is the payload's byte length, 36 + C + H for a
\* ciphertext of C bytes and a hash of H bytes: the two 4-byte length
\* fields, the ciphertext, the 12-byte iv, the 16-byte salt and the hash.
C16_HeaderIsPayloadLength ==
    (op = "embed" /\ allBits # <<>>) =>
        /\ HeaderValue = 36 + Len(encryptionResult.encryptedData)
                            + Len(TextEncode(encryptionResult.hash))
        /\ HeaderValue = Len(payload)

C16_Witness ==
    /\ op = "embed"
    /\ pc = "embedBlob"
    /\ Len(allBits) = 32 + 8 * Len(payload)
    /\ Len(encryptionResult.encryptedData) = 19
    /\ Len(TextEncode(encryptionResult.hash)) = 64
    /\ HeaderValue = 119

\* C16 as stated: the header equals 32 + C + H
C16_HeaderAsStated ==
    (op = "embed" /\ allBits # <<>>) =>
        HeaderValue = 32 + Len(encryptionResult.encryptedData)
                         + Len(TextEncode(encryptionResult.hash))

\* C17: payload framing.  The payload of an embed holds the big-endian
\* ciphertext length at offset 0, the ciphertext at 4, the iv at 4 + C, the
\* salt at 16 + C, the big-endian hash length at 32 + C and the hash bytes
\* at 36 + C, and the parse of extractDataFromImage returns from it the
\* ciphertext, iv, salt and hash string of the envelope.
C17_FramingRoundTrip ==
    (op = "embed" /\ payload # <<>>) =>
        LET C == Len(encryptionResult.encryptedData)
            hashBytes == TextEncode(encryptionResult.hash)
            H == Len(hashBytes)
        IN  /\ Len(payload) = 36 + C + H
            /\ Slice(payload, 0, 4) = <<0, 0, C \div 256, C % 256>>
            /\ Slice(payload, 4, 4 + C) = encryptionResult.encryptedData
            /\ Slice(payload, 4 + C, 16 + C) = encryptionResult.iv
            /\ Slice(payload, 16 + C, 32 + C) = encryptionResult.salt
            /\ Slice(payload, 32 + C, 36 + C) = <<0, 0, H \div 256, H % 256>>
            /\ Slice(payload, 36 + C, 36 + C + H) = hashBytes
            /\ ParsePayload(payload) =
                  [success |-> TRUE,
                   encryptedData |-> encryptionResult.encryptedData,
                   iv |-> encryptionResult.iv,
                   salt |-> encryptionResult.salt,
                   hash |-> encryptionResult.hash,
                   error |-> "none"]

C17_Witness ==
    /\ op = "embed"
    /\ Len(payload) = 120
    /\ Len(encryptionResult.iv) = 12
    /\ Len(encryptionResult.salt) = 16
    /\ encryptionResult.iv # Slice(encryptionResult.salt, 0, 12)
    /\ ParsePayload(payload).success
    /\ ParsePayload(payload).encryptedData = encryptionResult.encryptedData
    /\ ParsePayload(payload).hash = generateHash(message)

\* A handler is between its first setStatus and its terminal setStatus
InFlight == pc # "idle"

\* C18: at most one operation in flight.  While a handler runs the status is
\* 'encrypting', 'embedding', 'extracting' or 'decrypting'; in every state
\* with such a status the Embed button, the Extract button and the Reset
\* button are disabled; and no step taken while a handler runs starts an
\* operation or resets the page.
C18_OneInFlight ==
    /\ [](/\ InFlight => status \in {"encrypting", "embedding", "extracting", "decrypting"}
          /\ status \in {"encrypting", "embedding", "extracting", "decrypting"} =>
                (~EmbedButtonEnabled /\ ~ExtractButtonEnabled /\ ~ResetButtonEnabled))
    /\ [][InFlight =>
             /\ op' = op
             /\ inputVars' = inputVars]_vars

C18_Witness ==
    /\ pc = "payloadGen"
    /\ status = "extracting"
    /\ ~IsBlank(message)
    /\ Len(password) >= MinPasswordLen
    /\ selectedImage # Null
    /\ Len(extractPassword) >= MinPasswordLen
    /\ extractImage # Null
    /\ ~EmbedButtonEnabled
    /\ ~ExtractButtonEnabled
    /\ ~ResetButtonEnabled

\* C19: minimum password length.  An embed that has got past its guard
\* (encryptMessage is reached) runs with a password of at least 8
\* characters, and an extract that has got past its guard
\* (extractDataFromImage is reached) runs with an extract password of at
\* least 8 characters.
C19_MinPasswordLength ==
    /\ (op = "embed" /\ InFlight) => Len(password) >= 8
    /\ (op = "extract" /\ InFlight) => Len(extractPassword) >= 8

C19_Witness ==
    /\ op = "extract"
    /\ pc = "extractImage"
    /\ Len(extractPassword) = 8
    /\ Len(password) = 8
    /\ modifiedImageBlob # Null

\* Bit j of a byte, j = 0 the most significant
BitOf(byte, j) == (byte \div Pow2(7 - j)) % 2

\* The four big-endian bytes of a length below 2^24
LengthBytes(n) == <<0, (n \div 65536) % 256, (n \div 256) % 256, n % 256>>

\* C20: bit placement order.  After the write loop of an embed, bit i of
\* the sequence (the 32 bits of the payload length, most significant first,
\* then the payload bytes in order, most significant bit first) is the least
\* significant bit of channel i mod 3 of pixel positions[i].  An extract
\* reads header bit i < 32 and payload bit i >= 32 from channel i mod 3 of
\* pixel positions[i] of its own calls, and on the embed's image under the
\* embed's password these are the embed's positions and the embed's payload.
C20_BitPlacement ==
    /\ (op = "embed" /\ pc = "embedBlob") =>
          /\ Len(allBits) = 32 + 8 * Len(payload)
          /\ Len(embedPositions) = Len(allBits)
          /\ \A i \in 0..31 : allBits[i + 1] = BitOf(LengthBytes(Len(payload))[(i \div 8) + 1], i % 8)
          /\ \A i \in 32..(Len(allBits) - 1) :
                allBits[i + 1] = BitOf(payload[((i - 32) \div 8) + 1], (i - 32) % 8)
          /\ \A i \in 0..(Len(allBits) - 1) :
                pixels[embedPositions[i + 1] * 4 + (i % 3) + 1] % 2 = allBits[i + 1]
    /\ (op = "extract" /\ lengthPositions # <<>> /\ totalLength < Huge) =>
          \A i \in 0..31 :
              BitOf(LengthBytes(totalLength)[(i \div 8) + 1], i % 8)
                  = pixels[lengthPositions[i + 1] * 4 + (i % 3) + 1] % 2
    /\ (op = "extract" /\ extractedPayload # <<>>) =>
          /\ Len(extractedPayload) = totalLength
          /\ \A i \in 32..(32 + 8 * totalLength - 1) :
                BitOf(extractedPayload[((i - 32) \div 8) + 1], (i - 32) % 8)
                    = pixels[extractPositions[i + 1] * 4 + (i % 3) + 1] % 2
    /\ (/\ op = "extract"
        /\ extractedPayload # <<>>
        /\ ReadsStego
        /\ embedPositions # <<>>
        /\ extractPassword = password) =>
          /\ extractPositions = embedPositions
          /\ extractedPayload = payload

C20_Witness ==
    /\ ExtractDone
    /\ ReadsStego
    /\ extractPassword = password
    /\ Len(allBits) = 32 + 8 * 119
    /\ Len(embedPositions) = Len(allBits)
    /\ totalLength = 119
    /\ extractPositions = embedPositions
    /\ extractedPayload = payload
    /\ \A i \in 0..(Len(allBits) - 1) :
          pixels[extractPositions[i + 1] * 4 + (i % 3) + 1] % 2 = allBits[i + 1]

\* C21: status state machine.  The status follows the handler's position:
\* 'encrypting' then 'embedding' in an embed, 'extracting' then 'decrypting'
\* in an extract, a terminal status or 'idle' when no handler runs;
\* 'verified' is only left behind by an extract; and every handler that
\* runs ends: it is never inside a loop that cannot exit any more.
C21_StatusMachine ==
    /\ pc = "encrypt" => (op = "embed" /\ status = "encrypting")
    /\ pc \in {"embedImage", "embedGen", "embedBlob"} => (op = "embed" /\ status = "embedding")
    /\ pc \in {"extractImage", "headerGen", "payloadGen"} =>
          (op = "extract" /\ status = "extracting")
    /\ pc = "decrypt" => (op = "extract" /\ status = "decrypting" /\ extractionResult.success)
    /\ pc = "idle" => status \in {"idle", "success", "verified", "error"}
    /\ status = "verified" => op = "extract"
    /\ status \in {"encrypting", "embedding", "extracting", "decrypting"} =>
          ~(InGenerator /\ ~GenReturned /\ Cardinality(used) >= TotalPixels)

\* C22: no partial commit on embed failure.  An embed that ended in status
\* 'error' got success = false and no blob from embedDataInImage (if it got
\* as far as calling it), and left the page's modifiedImageBlob and stats
\* as they were: empty, as a session embeds until it has its image.
C22_NoPartialCommit ==
    (op = "embed" /\ pc = "idle" /\ status = "error") =>
        /\ ~stegoResult.success
        /\ stegoResult.modifiedImageBlob = <<>>
        /\ modifiedImageBlob = Null /\ stats = Null

\* C23: no stale output after a failed extraction.  An extraction that
\* ended in status 'error' leaves the extracted text empty and the
\* integrity status null, whatever the extractions before it produced.
C23_NoStaleOutput ==
    (op = "extract" /\ pc = "idle" /\ status = "error") =>
        /\ extractedMessage = <<>>
        /\ integrityStatus = Null

\* C24: stego-layer round trip.  When the 32 + 8 * payloadLength bits of an
\* embed are within width * height pixels, extractDataFromImage on the
\* image the embed wrote, under the embed's password, gets through both
\* generatePixelPositions calls, reads the payload the embed built and
\* returns success with the envelope's ciphertext, iv, salt and hash.
C24_StegoRoundTrip ==
    (/\ op = "extract"
     /\ ReadsStego
     /\ extractPassword = password
     /\ 32 + 8 * Len(payload) <= TotalPixels) =>
        /\ ~GenStuck
        /\ pc = "payloadGen" => totalLength = Len(payload)
        /\ pc \in {"decrypt", "idle"} =>
              /\ extractedPayload = payload
              /\ extractionResult = [success |-> TRUE,
                                     encryptedData |-> encryptionResult.encryptedData,
                                     iv |-> encryptionResult.iv,
                                     salt |-> encryptionResult.salt,
                                     hash |-> encryptionResult.hash,
                                     error |-> "none"]

C24_Witness ==
    /\ op = "extract"
    /\ ReadsStego
    /\ extractPassword = password
    /\ 32 + 8 * Len(payload) = TotalPixels
    /\ pc = "decrypt"
    /\ extractionResult.success
    /\ extractionResult.encryptedData = encryptionResult.encryptedData
    /\ extractionResult.salt = encryptionResult.salt

\* C25: termination of generatePixelPositions.  A call for no more bits
\* than the image has pixels never reaches a point from which its loop
\* cannot exit, and its loop has exited after the first burst of at most
\* 2^DrawsLog rounds, with one pixel index in `used` per position.
C25_GeneratorTerminates ==
    (InGenerator /\ bitsNeeded <= TotalPixels) =>
        /\ ~GenStuck
        /\ spins = 0
        /\ positions # <<>> => (GenReturned /\ Cardinality(used) = bitsNeeded)

C25_Witness ==
    /\ pc = "payloadGen"
    /\ bitsNeeded = TotalPixels
    /\ bitsNeeded > 900
    /\ GenReturned
    /\ Cardinality(used) = TotalPixels

\* C26: verified implies valid and current.  While the status is
\* 'verified' the last handler is an extraction that has ended, the
\* integrity status is set with isValid = true, and the extracted text is
\* the non-empty plaintext that extraction's decryptMessage returned for
\* the envelope it read; the step that sets 'verified' sets both.
C26_VerifiedIsCurrent ==
    status = "verified" =>
        /\ op = "extract" /\ pc = "idle"
        /\ extractionResult.success
        /\ decryptionResult =
              decryptMessage(extractionResult.encryptedData, extractionResult.iv,
                             extractionResult.salt, extractPassword, extractionResult.hash)
        /\ decryptionResult.isValid
        /\ integrityStatus = Some([isValid |-> TRUE, hash |-> decryptionResult.hash])
        /\ extractedMessage # <<>>
        /\ extractedMessage = decryptionResult.decryptedMessage
        /\ generateHash(extractedMessage) = extractionResult.hash

C26_Witness ==
    /\ status = "verified"
    /\ op = "extract" /\ pc = "idle"
    /\ integrityStatus # Null
    /\ integrityStatus[1].isValid
    /\ extractedMessage = MsgHey
    /\ decryptionResult.decryptedMessage = MsgHey

\* C27: field lengths on success.  An extractDataFromImage that returned
\* success returned a ciphertext of exactly the length its payload's first
\* four bytes decode to, an iv of 12 bytes and a salt of 16 bytes, all from
\* inside the payload it read.
C27_FieldLengths ==
    (op = "extract" /\ extractionResult.success) =>
        LET encryptedDataLength == getUint32(extractedPayload, 0)
        IN  /\ Len(extractedPayload) = totalLength
            /\ 4 + encryptedDataLength + 12 + 16 + 4 <= Len(extractedPayload)
            /\ Len(extractionResult.encryptedData) = encryptedDataLength
            /\ Len(extractionResult.iv) = 12
            /\ Len(extractionResult.salt) = 16

\* a success on an image whose ciphertext length field was altered
C27_Witness ==
    /\ op = "extract"
    /\ extractionResult.success
    /\ Tampered(32 + 8 * 4 - 1)
    /\ Len(extractionResult.encryptedData) = getUint32(extractedPayload, 0)
    /\ Len(extractionResult.encryptedData) # Len(encryptionResult.encryptedData)
    /\ Len(extractionResult.iv) = 12

\* Residues of 32-bit and wider values given in 16-bit halves, modulo a
\* prime below 2^15
Residue(sd, p) == ((sd[1] % p) * (W16 % p) + sd[2]) % p
WideResidue(top, low, p) == ((((top % p) * (W16 % p)) % p) * (W16 % p) + Residue(low, p)) % p

\* Four primes whose product exceeds 2^53: two values below 2^53 with the
\* same residues are equal
ResiduePrimes == {32713, 32717, 32719, 32749}

\* C28: PRNG arithmetic.  The seed after construction is an integer in
\* [0, 2^31]; every state is in [0, 2^32); the value seed * 1664525 +
\* 1013904223 a next() computes is below 2^53 (checked against the product
\* by its residues), and the state after next() is that value mod 2^32;
\* every nextInt(totalPixels) is in [0, totalPixels).
C28_PrngExact ==
    /\ [](/\ prng[1] \in 0..(W16 - 1) /\ prng[2] \in 0..(W16 - 1)
          /\ positions = <<>> =>
                (prng[1] < 32768 \/ prng = <<32768, 0>>)
          /\ \A i \in 1..Len(positions) :
                positions[i] \in 0..(canvas.width * canvas.height - 1))
    /\ [][LET v == LcgExact(prng)
          IN  /\ v.top < 2097152
              /\ \A p \in ResiduePrimes :
                    WideResidue(v.top, v.low, p) =
                       (Residue(prng, p) * (1664525 % p) + (1013904223 % p)) % p
              /\ prng' = v.low
              /\ Len(positions') = Len(positions) + 1]_vars

\* the seed 2^31 and a state in the upper half after some calls
C28_Witness ==
    /\ op = "prng"
    /\ password = PwMin
    /\ PRNGInit(password) = <<32768, 0>>
    /\ Len(positions) >= 2
    /\ prng[1] >= 32768
    /\ positions[Len(positions)] > 0

====
